---- MODULE Spec2Model ----
(***************************************************************************)
(* A model of the binary primitive codec "eightpack" (pack / unpack,       *)
(* packSeq / unpackSeq, writeTo / readFrom and the codecs below them), of  *)
(* the typed-buffer utilities it imports (swapEndianess, concatBytes,      *)
(* resolveRange, splitTypedSubarray), of diff of numericarray and of the   *)
(* file loading of FileParser.                                             *)
(*                                                                         *)
(* Conventions of the model                                                *)
(*   - a Uint8Array or number[] is a sequence; JavaScript index i is the   *)
(*     sequence index i + 1;                                               *)
(*   - an integer-valued JavaScript number n is the pair <<hi, lo>> with   *)
(*     n = hi * 2^16 + lo and 0 <= lo < 2^16 (hi is negative for n < 0),   *)
(*     so that values at and above 2^31 can be written down and the 32-bit *)
(*     conversions of the bitwise operators can be computed exactly;       *)
(*   - a type string is the sequence of its characters, because the code   *)
(*     destructures it (const [t, s, e] = type);                           *)
(*   - an optional trailing argument is a sequence of length 0 or 1;       *)
(*   - `undefined` is <<"undefined">>; a call that throws returns          *)
(*     <<"RangeError">> in place of its [value, bytesize] pair.            *)
(***************************************************************************)
EXTENDS Integers, Sequences, FiniteSets, TLC

VARIABLES
    env_le,     \* typedbuffer.env_le: is the host little-endian
    pc,         \* what the last call was
    call,       \* the arguments of the last call
    buf,        \* the byte buffer written by pack / packSeq or handed to unpack
    ret,        \* what the last unpack / unpackSeq returned
    seq,        \* the locals of a running unpackSeq, or of a caller that
                \* threads an offset through writeTo and readFrom calls
    held,       \* the argument array and the returned array the caller holds
                \* after a call, as they read now, and whether they are one
                \* object
    parser      \* a FileParser: its schema, the files of its loader_input, its
                \* file_reader, the promises of its parseFile calls, the
                \* promise reactions waiting to run, and its loaded_data

vars == <<env_le, pc, call, buf, ret, seq, held, parser>>

---------------------------------------------------------------------------
(* JavaScript numbers and the 32-bit operators *)

W8 == 2^8
W15 == 2^15
W16 == 2^16

Min(a, b) == IF a < b THEN a ELSE b
Max(a, b) == IF a > b THEN a ELSE b

\* the number n, for an n TLC can hold
Num(n) == <<n \div W16, n % W16>>

Undefined == <<"undefined">>
RangeError == <<"RangeError">>
None == <<>>

IsNum(x) == Len(x) = 2

\* v >= 0
GE0(v) == v[1] >= 0

\* v > k, for 0 <= k < 2^16
GT(v, k) == v[1] > 0 \/ (v[1] = 0 /\ v[2] > k)

\* -v
Neg(v) == IF v[2] = 0 THEN <<-v[1], 0>> ELSE <<-v[1] - 1, W16 - v[2]>>

\* v * sign, sign in {1, -1}
Times(v, sign) == IF sign = 1 THEN v ELSE Neg(v)

\* v + k, for 0 <= k < 2^16
Plus(v, k) == <<v[1] + (v[2] + k) \div W16, (v[2] + k) % W16>>

\* ToInt32 and ToUint32 of ECMA-262, which every bitwise operator applies first
ToInt32(v) ==
    LET h == v[1] % W16
    IN  <<IF h >= W15 THEN h - W16 ELSE h, v[2]>>

ToUint32(v) == <<v[1] % W16, v[2]>>

\* v & mask for the masks the code uses (0b01111111, 0b00111111): mask + 1 = 2^k
BitAnd(v, mask) == ToInt32(v)[2] % (mask + 1)

\* v >> 7 (sign-propagating, on ToInt32(v))
Sar7(v) ==
    LET y == ToInt32(v)
    IN  Num(y[1] * 512 + y[2] \div 128)

\* v << 7 (the low 32 bits of v * 128, read as a signed 32-bit integer)
Shl7(v) ==
    ToInt32(<<v[1] * 128 + (v[2] * 128) \div W16, (v[2] * 128) % W16>>)

RECURSIVE Reverse(_)
Reverse(s) == IF s = <<>> THEN <<>> ELSE Reverse(Tail(s)) \o <<Head(s)>>

RECURSIVE Flatten(_)
Flatten(ss) == IF ss = <<>> THEN <<>> ELSE Head(ss) \o Flatten(Tail(ss))

---------------------------------------------------------------------------
(* Uint8Array primitives *)

\* the relative index of %TypedArray%.prototype.slice / subarray
RelIndex(k, len) == IF k < 0 THEN Max(len + k, 0) ELSE Min(k, len)

\* buf.slice(start, end) and the contents of buf.subarray(start, end);
\* end is <<>> when undefined
slice(b, start, end) ==
    LET from == RelIndex(start, Len(b))
        to == IF end = <<>> THEN Len(b) ELSE RelIndex(end[1], Len(b))
    IN  SubSeq(b, from + 1, to)

\* buf.indexOf(x, from), for from >= 0
RECURSIVE indexOf(_, _, _)
indexOf(b, x, from) ==
    IF from >= Len(b) THEN -1
    ELSE IF b[from + 1] = x THEN from
    ELSE indexOf(b, x, from + 1)

---------------------------------------------------------------------------
(* uvar / ivar *)

\* the do-while of encode_uvar_array: the base-128 digits of v, least
\* significant first, each with the continuation bit set
RECURSIVE uvar_lsb_to_msb(_)
uvar_lsb_to_msb(v) ==
    LET digit == BitAnd(v, 127) + 128
        v1 == Sar7(v)
    IN  <<digit>> \o (IF GT(v1, 0) THEN uvar_lsb_to_msb(v1) ELSE <<>>)

\* one iteration of the for loop of encode_uvar_array
encode_uvar_item(v0) ==
    LET v == Times(v0, IF GE0(v0) THEN 1 ELSE -1)
        lsb_to_msb == uvar_lsb_to_msb(v)
    IN  Reverse([lsb_to_msb EXCEPT ![1] = @ % 128])

encode_uvar_array(value) ==
    Flatten([i \in 1..Len(value) |-> encode_uvar_item(value[i])])

encode_uvar(value) == encode_uvar_array(<<value>>)

\* the for loop of decode_uvar_array; i is the index of `byte` (offset - 1),
\* inf says that array_length is Infinity
RECURSIVE decode_uvar_loop(_, _, _, _, _, _)
decode_uvar_loop(b, i, inf, array_length, value, array) ==
    IF (inf \/ array_length > 0) /\ i + 1 < Len(b) + 1
    THEN LET byte == b[i + 1]
             value1 == Plus(Shl7(value), byte % 128)
         IN  IF byte \div 128 = 0
             THEN decode_uvar_loop(b, i + 1, inf, IF inf THEN array_length ELSE array_length - 1,
                                   Num(0), Append(array, value1))
             ELSE decode_uvar_loop(b, i + 1, inf, array_length, value1, array)
    ELSE <<array, i>>

\* a slip of the byte count: the final offset-- left out
decode_uvar_array_no_step_back(b, offset, args) ==
    LET inf == args = <<>>
        r == decode_uvar_loop(b, offset, inf, IF inf THEN 0 ELSE args[1], Num(0), <<>>)
    IN  <<r[1], r[2] + 1 - offset>>

decode_uvar_array(b, offset, args) ==
    LET inf == args = <<>>
        r == decode_uvar_loop(b, offset, inf, IF inf THEN 0 ELSE args[1], Num(0), <<>>)
    IN  <<r[1], r[2] - offset>>

decode_uvar(b, offset) ==
    LET r == decode_uvar_array(b, offset, <<1>>)
    IN  <<IF r[1] = <<>> THEN Undefined ELSE r[1][1], r[2]>>

\* the while loop of encode_ivar_array; returns the digits pushed and the v left
RECURSIVE ivar_lsb_to_msb(_)
ivar_lsb_to_msb(v) ==
    IF GT(v, 63)
    THEN LET r == ivar_lsb_to_msb(Sar7(v))
         IN  <<<<BitAnd(v, 127) + 128>> \o r[1], r[2]>>
    ELSE <<<<>>, v>>

\* a slip of the sign test (v > 0 for v >= 0): zero takes the negative branch
encode_ivar_item_strict_sign(v0) ==
    LET sign == IF GT(v0, 0) THEN 1 ELSE -1
        r == ivar_lsb_to_msb(Times(v0, sign))
        lsb_to_msb == Append(r[1], BitAnd(r[2], 63) + (IF sign = -1 THEN 192 ELSE 128))
    IN  Reverse([lsb_to_msb EXCEPT ![1] = @ % 128])

encode_ivar_item(v0) ==
    LET sign == IF GE0(v0) THEN 1 ELSE -1
        r == ivar_lsb_to_msb(Times(v0, sign))
        lsb_to_msb == Append(r[1], BitAnd(r[2], 63) + (IF sign = -1 THEN 192 ELSE 128))
    IN  Reverse([lsb_to_msb EXCEPT ![1] = @ % 128])

encode_ivar_array(value) ==
    Flatten([i \in 1..Len(value) |-> encode_ivar_item(value[i])])

encode_ivar(value) == encode_ivar_array(<<value>>)

RECURSIVE decode_ivar_loop(_, _, _, _, _, _, _)
decode_ivar_loop(b, i, inf, array_length, sign, value, array) ==
    IF (inf \/ array_length > 0) /\ i + 1 < Len(b) + 1
    THEN LET byte == b[i + 1]
             sign1 == IF sign = 0 THEN (IF (byte \div 64) % 2 > 0 THEN -1 ELSE 1) ELSE sign
             value1 == IF sign = 0 THEN Num(byte % 64) ELSE Plus(Shl7(value), byte % 128)
         IN  IF byte \div 128 = 0
             THEN decode_ivar_loop(b, i + 1, inf, IF inf THEN array_length ELSE array_length - 1,
                                   0, Num(0), Append(array, Times(value1, sign1)))
             ELSE decode_ivar_loop(b, i + 1, inf, array_length, sign1, value1, array)
    ELSE <<array, i>>

\* a slip of the decoder: the leading byte read as a plain uvar digit
decode_ivar_array_unsigned(b, offset, args) == decode_uvar_array(b, offset, args)

decode_ivar_array(b, offset, args) ==
    LET inf == args = <<>>
        r == decode_ivar_loop(b, offset, inf, IF inf THEN 0 ELSE args[1], 0, Num(0), <<>>)
    IN  <<r[1], r[2] - offset>>

decode_ivar(b, offset) ==
    LET r == decode_ivar_array(b, offset, <<1>>)
    IN  <<IF r[1] = <<>> THEN Undefined ELSE r[1][1], r[2]>>

---------------------------------------------------------------------------
(* typed arrays *)

\* type[i]; "undefined" stands for the undefined a short string gives
CharAt(type, i) == IF i < Len(type) THEN type[i + 1] ELSE "undefined"

\* type.endsWith("[]")
endsWithBrackets(type) ==
    Len(type) >= 2 /\ type[Len(type) - 1] = "[" /\ type[Len(type)] = "]"

\* parseInt(s) for the one-character widths of the type strings
parseInt(s) ==
    CASE s = "1" -> 1
      [] s = "2" -> 2
      [] s = "4" -> 4
      [] s = "8" -> 8

\* a slip of the switch: the signed kinds given the unsigned constructors
typed_array_constructor_of_unsigned(type) ==
    IF CharAt(type, 2) = "c" THEN "Uint8ClampedArray"
    ELSE LET s == CharAt(type, 1)
         IN  CASE CharAt(type, 0) = "f" /\ s = "4" -> "Float32Array"
               [] CharAt(type, 0) = "f" /\ s = "8" -> "Float64Array"
               [] s = "2" -> "Uint16Array"
               [] s = "4" -> "Uint32Array"
               [] OTHER -> "Uint8Array"

typed_array_constructor_of(type) ==
    IF CharAt(type, 2) = "c" THEN "Uint8ClampedArray"
    ELSE LET dtype == <<CharAt(type, 0), CharAt(type, 1)>>
         IN  CASE dtype = <<"u", "1">> -> "Uint8Array"
               [] dtype = <<"u", "2">> -> "Uint16Array"
               [] dtype = <<"u", "4">> -> "Uint32Array"
               [] dtype = <<"i", "1">> -> "Int8Array"
               [] dtype = <<"i", "2">> -> "Int16Array"
               [] dtype = <<"i", "4">> -> "Int32Array"
               [] dtype = <<"f", "4">> -> "Float32Array"
               [] dtype = <<"f", "8">> -> "Float64Array"
               [] OTHER -> "Uint8Array"

\* does typed_array_constructor_of(type) take its default branch (console.error)
unrecognized_type(type) ==
    /\ CharAt(type, 2) # "c"
    /\ <<CharAt(type, 0), CharAt(type, 1)>> \notin
         {<<"u", "1">>, <<"u", "2">>, <<"u", "4">>, <<"i", "1">>, <<"i", "2">>,
          <<"i", "4">>, <<"f", "4">>, <<"f", "8">>}

BYTES_PER_ELEMENT(ctor) ==
    CASE ctor \in {"Uint8Array", "Uint8ClampedArray", "Int8Array"} -> 1
      [] ctor \in {"Uint16Array", "Int16Array"} -> 2
      [] ctor \in {"Uint32Array", "Int32Array", "Float32Array"} -> 4
      [] ctor = "Float64Array" -> 8

IsFloat(ctor) == ctor \in {"Float32Array", "Float64Array"}

\* the value an element holds after the number v is stored in it
ToElement(ctor, v) ==
    CASE ctor = "Uint8Array" -> <<0, v[2] % W8>>
      [] ctor = "Uint8ClampedArray" ->
            IF v[1] < 0 THEN Num(0) ELSE IF GT(v, 255) THEN Num(255) ELSE v
      [] ctor = "Int8Array" ->
            IF v[2] % W8 >= 128 THEN Num((v[2] % W8) - W8) ELSE Num(v[2] % W8)
      [] ctor = "Uint16Array" -> <<0, v[2]>>
      [] ctor = "Int16Array" -> IF v[2] >= W15 THEN <<-1, v[2]>> ELSE <<0, v[2]>>
      [] ctor = "Uint32Array" -> ToUint32(v)
      [] ctor = "Int32Array" -> ToInt32(v)
      [] OTHER -> v   \* the floats hold every modelled integer exactly

RECURSIVE Pow2(_)
Pow2(n) == IF n = 0 THEN 1 ELSE 2 * Pow2(n - 1)

RECURSIVE Log2(_)
Log2(a) == IF a < 2 THEN 0 ELSE 1 + Log2(a \div 2)

\* IEEE-754 binary32 / binary64 of an integer-valued x, |x| < 2^20, most
\* significant byte first
IntFloatBytesBE(ctor, x) ==
    LET neg == x[1] < 0
        a == LET m == Times(x, IF neg THEN -1 ELSE 1) IN m[1] * W16 + m[2]
        s == IF neg THEN 128 ELSE 0
        e == Log2(a)
    IN  IF ctor = "Float32Array"
        THEN IF a = 0 THEN <<0, 0, 0, 0>>
             ELSE LET E == e + 127
                      M == (a - Pow2(e)) * Pow2(23 - e)
                  IN  <<s + E \div 2, (E % 2) * 128 + M \div W16, (M \div W8) % W8, M % W8>>
        ELSE IF a = 0 THEN <<0, 0, 0, 0, 0, 0, 0, 0>>
             ELSE LET E == e + 1023
                      M == (a - Pow2(e)) * Pow2(20 - e)
                  IN  <<s + E \div 16, (E % 16) * 16 + M \div W16, (M \div W8) % W8, M % W8,
                        0, 0, 0, 0>>

\* the bytes of the float x, most significant byte first; a value named by its
\* bit pattern (of this same constructor) is stored as that pattern
FloatBytesBE(ctor, x) == IF Len(x) = 2 THEN IntFloatBytesBE(ctor, x) ELSE Tail(x)

\* the number an IEEE-754 bit pattern holds: an integer where it is one, else
\* the value is named by its bit pattern, <<"float", b1, ..., bn>>
FloatOfBytesBE(ctor, b) ==
    LET s == b[1] \div 128
        wide == ctor = "Float64Array"
        E == IF wide THEN (b[1] % 128) * 16 + b[2] \div 16 ELSE (b[1] % 128) * 2 + b[2] \div 128
        M == IF wide THEN (b[2] % 16) * W16 + b[3] * W8 + b[4]
                     ELSE (b[2] % 128) * W16 + b[3] * W8 + b[4]
        low0 == wide => (b[5] = 0 /\ b[6] = 0 /\ b[7] = 0 /\ b[8] = 0)
        bias == IF wide THEN 1023 ELSE 127
        mbits == IF wide THEN 20 ELSE 23
        e == E - bias
    IN  IF E = 0 /\ M = 0 /\ low0 THEN Num(0)
        ELSE IF low0 /\ e >= 0 /\ e <= mbits /\ M % Pow2(mbits - e) = 0
        THEN Times(Num((Pow2(mbits) + M) \div Pow2(mbits - e)), IF s = 1 THEN -1 ELSE 1)
        ELSE <<"float">> \o b

\* the bytes of one element in the host's byte order
ElementBytes(ctor, x) ==
    LET le == IF IsFloat(ctor) THEN Reverse(FloatBytesBE(ctor, x))
              ELSE SubSeq(<<x[2] % W8, x[2] \div W8, (x[1] % W16) % W8, (x[1] % W16) \div W8>>,
                          1, BYTES_PER_ELEMENT(ctor))
    IN  IF env_le THEN le ELSE Reverse(le)

\* the element that the bytes b hold, read in the host's byte order
ElementOfBytes(ctor, b) ==
    LET le == IF env_le THEN b ELSE Reverse(b)
        w == Len(b)
        lo == le[1] + (IF w >= 2 THEN le[2] * W8 ELSE 0)
        hi == IF w >= 4 THEN le[3] + le[4] * W8 ELSE 0
    IN  CASE IsFloat(ctor) -> FloatOfBytesBE(ctor, Reverse(le))
          [] ctor \in {"Uint8Array", "Uint8ClampedArray", "Uint16Array", "Uint32Array"} -> <<hi, lo>>
          [] ctor = "Int8Array" -> IF lo >= 128 THEN Num(lo - W8) ELSE Num(lo)
          [] ctor = "Int16Array" -> IF lo >= W15 THEN <<-1, lo>> ELSE <<0, lo>>
          [] ctor = "Int32Array" -> ToInt32(<<hi, lo>>)

\* ctor.from(value): a typed array is the record of its constructor and of the
\* bytes of its buffer
TypedArrayFrom(ctor, value) ==
    [ctor |-> ctor,
     buffer |-> Flatten([i \in 1..Len(value) |-> ElementBytes(ctor, ToElement(ctor, value[i]))])]

\* new ctor(buffer) throws a RangeError unless the byte length is a multiple
\* of the element size
TypedArrayThrows(ctor, buffer) == Len(buffer) % BYTES_PER_ELEMENT(ctor) # 0

\* Array.from(new ctor(buffer))
ArrayFromBuffer(ctor, buffer) ==
    LET w == BYTES_PER_ELEMENT(ctor)
    IN  [k \in 1..(Len(buffer) \div w) |->
            ElementOfBytes(ctor, SubSeq(buffer, (k - 1) * w + 1, k * w))]

\* swapEndianess(buf, bytesize): buf.subarray(i, i + bytesize).reverse() for
\* i = 0, bytesize, 2 * bytesize, ... < len; subarray clamps its end to len, so
\* a trailing partial element is reversed within itself
RECURSIVE swapEndianess_loop(_, _, _)
swapEndianess_loop(b, i, bytesize) ==
    IF i >= Len(b) THEN b
    ELSE LET end == Min(i + bytesize, Len(b))
         IN  swapEndianess_loop(
                 [n \in 1..Len(b) |-> IF n > i /\ n <= end THEN b[i + end + 1 - n] ELSE b[n]],
                 i + bytesize, bytesize)

swapEndianess(b, bytesize) == swapEndianess_loop(b, 0, bytesize)

\* a slip of the source index: a = bs - 1 - offset
swapEndianessFast_half_stride(b, bytesize) ==
    [n \in 1..Len(b) |->
        LET i == n - 1
            a == bytesize - 1 - (i % bytesize)
        IN  IF i + a < Len(b) THEN b[i + a + 1] ELSE 0]

\* swapEndianessFast(buf, bytesize): swapped_buf starts as zeros; index i is
\* written once, in the pass offset = i % bs, from buf[i + bs - 1 - 2 * offset];
\* a read past the end of buf stores 0, a write past swapped_buf is dropped
swapEndianessFast(b, bytesize) ==
    LET len == Len(b)
        bs == bytesize
    IN  [n \in 1..len |->
            LET i == n - 1
                a == bs - 1 - (i % bs) * 2
            IN  IF i + a < len THEN b[i + a + 1] ELSE 0]

\* concatBytes(...arrs): the running offsets, then one outarr.set per input
RECURSIVE concat_offsets(_, _)
concat_offsets(arrs, offsets) ==
    IF arrs = <<>> THEN offsets
    ELSE concat_offsets(Tail(arrs), Append(offsets, offsets[Len(offsets)] + Len(Head(arrs))))

concatBytes(arrs) ==
    LET offsets == concat_offsets(arrs, <<0>>)
        total == offsets[Len(offsets)]
    IN  [n \in 1..total |->
            LET k == CHOOSE k \in 1..Len(arrs) : offsets[k] < n /\ n <= offsets[k + 1]
            IN  arrs[k][n - offsets[k]]]

\* a slip: the offset added before the span is taken, to start only
resolveRange_offset_first(start, end, length, offset) ==
    LET s0 == (IF start = <<>> THEN 0 ELSE start[1]) + (IF offset = <<>> THEN 0 ELSE offset[1])
    IN  IF length = <<>>
        THEN <<s0, IF end = <<>> THEN <<>> ELSE <<end[1]>>, <<>> >>
        ELSE LET e0 == IF end = <<>> THEN length[1] ELSE end[1]
                 s1 == s0 + (IF s0 >= 0 THEN 0 ELSE length[1])
                 e1 == e0 + (IF e0 >= 0 THEN 0 ELSE length[1])
             IN  <<s1, <<e1>>, <<IF e1 - s1 >= 0 THEN e1 - s1 ELSE 0>> >>

\* resolveRange(start?, end?, length?, offset?): an argument is <<>> when it is
\* undefined and <<n>> otherwise; the result is <<start, end, length>> with
\* end and length in the same form
resolveRange(start, end, length, offset) ==
    LET s0 == IF start = <<>> THEN 0 ELSE start[1]
        o == IF offset = <<>> THEN 0 ELSE offset[1]
    IN  IF length = <<>>
        THEN <<s0 + o, IF end = <<>> THEN <<>> ELSE <<end[1] + o>>, <<>> >>
        ELSE LET e0 == IF end = <<>> THEN length[1] ELSE end[1]
                 s1 == s0 + (IF s0 >= 0 THEN 0 ELSE length[1])
                 e1 == e0 + (IF e0 >= 0 THEN 0 ELSE length[1])
                 l == e1 - s1
             IN  <<s1 + o, <<e1 + o>>, <<IF l >= 0 THEN l ELSE 0>> >>

\* Math.ceil(n / d), for n >= 0 and d > 0
Ceil(n, d) == (n + d - 1) \div d

\* arr.subarray(begin, end): the view's first index and the index after its
\* last, within arr
subarray(arr, begin, end) ==
    LET from == RelIndex(begin, Len(arr))
        to == RelIndex(end, Len(arr))
    IN  [from |-> from, to |-> Max(from, to)]

\* splitTypedSubarray(arr, step): view i is arr.subarray(i * step, i * (step + 1))
splitTypedSubarray(arr, step) ==
    [n \in 1..Ceil(Len(arr), step) |-> subarray(arr, (n - 1) * step, (n - 1) * (step + 1))]

---------------------------------------------------------------------------
(* numericarray *)

NaN == <<"NaN">>

\* arr[k]: undefined for an index that is not one of the array's
At(arr, k) == IF 0 <= k /\ k < Len(arr) THEN arr[k + 1] ELSE Undefined

\* x - y, for numbers within 2^15 of 0; NaN when y is undefined
Minus(x, y) ==
    IF y = Undefined \/ y = NaN \/ x = NaN THEN NaN
    ELSE Num((x[1] * W16 + x[2]) - (y[1] * W16 + y[2]))

\* d[i] = x: an Int32Array stores NaN as 0, an Array stores what it is given
StoreInto(kind, x) == IF kind = "Int32Array" /\ x = NaN THEN Num(0) ELSE x

\* diff(arr, start?, end?), arr an Array<number> or an Int32Array
diff(arr, kind, start, end) ==
    LET range == resolveRange(start, end, <<Len(arr)>>, <<>>)
        s == range[1]
        d == slice(arr, s + 1, range[2])
    IN  [n \in 1..Len(d) |-> StoreInto(kind, Minus(d[n], At(arr, s + (n - 1) - 1)))]

---------------------------------------------------------------------------
(* text: a string is the sequence of its code points, all in the basic plane;
   a decoded string holds code points below U+0800 and U+FFFD *)

\* TextEncoder.encode: UTF-8
utf8_encode(str) ==
    Flatten([i \in 1..Len(str) |->
                IF str[i] < 128 THEN <<str[i]>>
                ELSE IF str[i] < 2048 THEN <<192 + str[i] \div 64, 128 + (str[i] % 64)>>
                ELSE <<224 + str[i] \div 4096, 128 + ((str[i] \div 64) % 64),
                       128 + (str[i] % 64)>>])

\* TextDecoder.decode: UTF-8 with U+FFFD for a malformed byte. Exact for buffers
\* without the lead bytes of three- and four-byte sequences (0xE0 .. 0xF4).
RECURSIVE utf8_decode(_)
utf8_decode(b) ==
    IF b = <<>> THEN <<>>
    ELSE IF b[1] < 128 THEN <<b[1]>> \o utf8_decode(Tail(b))
    ELSE IF b[1] >= 194 /\ b[1] <= 223 /\ Len(b) >= 2 /\ b[2] >= 128 /\ b[2] <= 191
    THEN <<(b[1] - 192) * 64 + (b[2] - 128)>> \o utf8_decode(Tail(Tail(b)))
    ELSE <<65533>> \o utf8_decode(Tail(b))

---------------------------------------------------------------------------
(* the primitive codecs *)

T_bool == <<"b", "o", "o", "l">>
T_cstr == <<"c", "s", "t", "r">>
T_str == <<"s", "t", "r">>
T_bytes == <<"b", "y", "t", "e", "s">>

Arr(type) == type \o <<"[", "]">>

encode_bool(value) == <<IF value THEN 1 ELSE 0>>

\* buf[offset] >= 1 is false for the undefined read past the end
decode_bool(b, offset) ==
    <<IF offset < Len(b) /\ b[offset + 1] >= 1 THEN TRUE ELSE FALSE, 1>>

encode_cstr(value) == utf8_encode(value \o <<0>>)

\* a slip of the byte count: the terminator left uncounted
decode_cstr_uncounted_terminator(b, offset) ==
    LET txt_arr == slice(b, offset, <<indexOf(b, 0, offset)>>)
    IN  <<utf8_decode(txt_arr), Len(txt_arr)>>

decode_cstr(b, offset) ==
    LET offset_end == indexOf(b, 0, offset)
        txt_arr == slice(b, offset, <<offset_end>>)
        value == utf8_decode(txt_arr)
    IN  <<value, Len(txt_arr) + 1>>

encode_str(value) == utf8_encode(value)

\* a slip of the test of bytesize: truthiness in place of === undefined
decode_str_truthy_bytesize(b, offset, args) ==
    LET offset_end == IF args = <<>> \/ args[1] = 0 THEN <<>> ELSE <<offset + args[1]>>
        txt_arr == slice(b, offset, offset_end)
    IN  <<utf8_decode(txt_arr), Len(txt_arr)>>

decode_str(b, offset, args) ==
    LET offset_end == IF args = <<>> THEN <<>> ELSE <<offset + args[1]>>
        txt_arr == slice(b, offset, offset_end)
        value == utf8_decode(txt_arr)
    IN  <<value, Len(txt_arr)>>

encode_bytes(value) == value

decode_bytes(b, offset, args) ==
    LET offset_end == IF args = <<>> THEN <<>> ELSE <<offset + args[1]>>
        value == slice(b, offset, offset_end)
    IN  <<value, Len(value)>>

\* a slip of the test: the host taken to be little-endian
is_native_endian_le_host(e, bytesize) == e = "l" \/ bytesize = 1

\* (e === "l" && env_le) || (e === "b" && !env_le) || bytesize === 1 ? true : false
is_native_endian(e, bytesize) ==
    (e = "l" /\ env_le) \/ (e = "b" /\ ~env_le) \/ bytesize = 1

encode_number_array(value, type) ==
    LET t == CharAt(type, 0)
        s == CharAt(type, 1)
        e == CharAt(type, 2)
    IN  IF s = "v"
        THEN IF t = "u" THEN encode_uvar_array(value) ELSE encode_ivar_array(value)
        ELSE LET typed_arr_constructor == typed_array_constructor_of(type)
                 bytesize == parseInt(s)
                 typed_arr == TypedArrayFrom(typed_arr_constructor, value)
             IN  IF typed_arr.ctor = "Uint8Array" THEN typed_arr.buffer
                 ELSE IF is_native_endian(e, bytesize) THEN typed_arr.buffer
                 ELSE swapEndianessFast(typed_arr.buffer, bytesize)

\* does encode_number_array(value, type) return through swapEndianessFast:
\* neither the early return of a Uint8Array nor that of the native byte order
encode_swaps(type) ==
    /\ typed_array_constructor_of(type) # "Uint8Array"
    /\ ~is_native_endian(CharAt(type, 2), parseInt(CharAt(type, 1)))

\* a slip of the byte length: the element count taken for it
decode_bytelength_count(bytesize, args) ==
    IF args # <<>> /\ args[1] # 0 THEN <<args[1]>> ELSE <<>>

\* array_length ? bytesize * array_length : undefined
decode_bytelength(bytesize, args) ==
    IF args # <<>> /\ args[1] # 0 THEN <<bytesize * args[1]>> ELSE <<>>

decode_number_array(b, offset, type, args) ==
    LET t == CharAt(type, 0)
        s == CharAt(type, 1)
        e == CharAt(type, 2)
    IN  IF s = "v"
        THEN IF t = "u" THEN decode_uvar_array(b, offset, args)
                        ELSE decode_ivar_array(b, offset, args)
        ELSE LET bytesize == parseInt(s)
                 bytelength == decode_bytelength(bytesize, args)
                 array_buf == slice(b, offset,
                                    IF bytelength # <<>> /\ bytelength[1] # 0
                                    THEN <<offset + bytelength[1]>> ELSE <<>>)
                 array_bytesize == Len(array_buf)
                 typed_arr_constructor == typed_array_constructor_of(type)
                 buffer == IF is_native_endian(e, bytesize) THEN array_buf
                           ELSE swapEndianessFast(array_buf, bytesize)
             IN  IF TypedArrayThrows(typed_arr_constructor, buffer) THEN RangeError
                 ELSE <<ArrayFromBuffer(typed_arr_constructor, buffer), array_bytesize>>

encode_number(value, type) == encode_number_array(<<value>>, type)

decode_number(b, offset, type) ==
    LET r == decode_number_array(b, offset, type, <<1>>)
    IN  IF r = RangeError THEN RangeError
        ELSE <<IF r[1] = <<>> THEN Undefined ELSE r[1][1], r[2]>>

pack(type, value) ==
    CASE type = T_bool -> encode_bool(value)
      [] type = T_cstr -> encode_cstr(value)
      [] type = T_str -> encode_str(value)
      [] type = T_bytes -> encode_bytes(value)
      [] OTHER -> IF endsWithBrackets(type) THEN encode_number_array(value, type)
                  ELSE encode_number(value, type)

unpack(type, b, offset, args) ==
    CASE type = T_bool -> decode_bool(b, offset)
      [] type = T_cstr -> decode_cstr(b, offset)
      [] type = T_str -> decode_str(b, offset, args)
      [] type = T_bytes -> decode_bytes(b, offset, args)
      [] OTHER -> IF endsWithBrackets(type) THEN decode_number_array(b, offset, type, args)
                  ELSE decode_number(b, offset, type)

\* buf.set(value_buf, offset): the contents of buf afterwards
set(b, value_buf, offset) ==
    SubSeq(b, 1, offset) \o value_buf \o SubSeq(b, offset + Len(value_buf) + 1, Len(b))

\* the last two lines of writeTo: buf.set throws a RangeError when value_buf
\* does not fit at offset
writeTo_set(b, offset, value_buf) ==
    IF offset + Len(value_buf) > Len(b) THEN RangeError
    ELSE <<set(b, value_buf, offset), offset + Len(value_buf)>>

\* writeTo(buf, offset, type, value): <<contents of buf, new_offset>>
writeTo(b, offset, type, value) == writeTo_set(b, offset, pack(type, value))

\* the last line of readFrom, r being what unpack returned or threw
readFrom_return(offset, r) ==
    IF r = RangeError THEN RangeError ELSE <<r[1], offset + r[2]>>

\* readFrom(buf, offset, type, ...args): <<value, new_offset>>
readFrom(b, offset, type, args) == readFrom_return(offset, unpack(type, b, offset, args))

\* items is a sequence of <<type, value>>
packSeq(items) == concatBytes([k \in 1..Len(items) |-> pack(items[k][1], items[k][2])])

---------------------------------------------------------------------------
(* the inputs of the calls *)

MaxLen == 2      \* longest array, string and byte run handed to pack
MaxBuf == 3      \* longest arbitrary buffer handed to unpack
MaxItems == 3    \* longest item list handed to packSeq / unpackSeq
MaxSwapLen == 16 \* longest buffer handed to swapEndianess / swapEndianessFast
MaxRangeLen == 10 \* longest length handed to resolveRange
MaxDiffLen == 3   \* longest array handed to diff
MaxSplitLen == 6  \* longest array handed to splitTypedSubarray
MaxFiles == 3     \* most files selected in one change event of loader_input

T_uv == <<"u", "v">>
T_iv == <<"i", "v">>
T_u1 == <<"u", "1">>
T_u4b == <<"u", "4", "b">>

\* the declared fixed-width integer kinds, the float kinds, and the 8-byte
\* integer kinds that NumericDType excludes
IntKinds ==
    {T_u1, <<"u", "1", "c">>, <<"i", "1">>}
        \cup {<<t, s, e>> : t \in {"u", "i"}, s \in {"2", "4"}, e \in {"l", "b"}}
FloatKinds == {<<"f", s, e>> : s \in {"4", "8"}, e \in {"l", "b"}}
WideIntKinds == {<<t, "8", e>> : t \in {"u", "i"}, e \in {"l", "b"}}
VarKinds == {T_uv, T_iv}
FixedKinds == IntKinds \cup FloatKinds \cup WideIntKinds
NumericKinds == FixedKinds \cup VarKinds

P31 == <<W15, 0>>               \* 2^31
P32 == <<W16, 0>>               \* 2^32

Samples ==
    {Num(0), Num(1), Num(5), Num(63), Num(64), Num(127), Num(128), Num(255), Num(256),
     Num(258), Num(8191), Num(8192), Num(16383), Num(16384), Num(32767), Num(32768),
     Num(65535), Num(1223576), <<W15 - 1, W16 - 1>>, P31, <<W16 - 1, W16 - 1>>, P32,
     <<W16, 5>>,
     Num(-1), Num(-63), Num(-64), Num(-128), Num(-129), Num(-8191), Num(-32768),
     <<-W15, 1>>, <<-W15, 0>>, <<-W15 - 1, W16 - 1>>, <<-W16, 0>>}

\* a <= b
Leq(a, b) == a[1] < b[1] \/ (a[1] = b[1] /\ a[2] <= b[2])

\* the values handed to pack for a numeric kind
Values(type) ==
    CASE type = T_uv -> {v \in Samples : GE0(v)}
      [] type \in FloatKinds -> {v \in Samples : v[1] >= -16 /\ v[1] < 16}
      [] type \in WideIntKinds -> {Num(0), Num(5), Num(255)}
      [] OTHER -> Samples

\* the elements of the arrays handed to pack
ArrayElements(type) == Values(type) \cap {Num(0), Num(5), Num(128), Num(-64), P31}

SeqsUpTo(S, n) == UNION {[1..k -> S] : k \in 0..n}

Texts == SeqsUpTo({104, 105, 233}, MaxLen)      \* over "h", "i", U+00E9
ByteRuns == SeqsUpTo({0, 1, 255}, MaxLen)

\* every <<type, value>> handed to pack
PackInputs ==
    {<<T_bool, v>> : v \in BOOLEAN}
        \cup {<<T_cstr, v>> : v \in Texts}
        \cup {<<T_str, v>> : v \in Texts}
        \cup {<<T_bytes, v>> : v \in ByteRuns}
        \cup UNION {{<<type, v>> : v \in Values(type)} : type \in NumericKinds}
        \cup UNION {{<<Arr(type), v>> : v \in SeqsUpTo(ArrayElements(type), MaxLen)} :
                        type \in NumericKinds}

\* the trailing arguments of unpack that match a packed value: its byte length
\* for "str" and "bytes", its element count for an array, none otherwise
MatchingArgs(type, value) ==
    IF type \in {T_str, T_bytes} THEN <<Len(pack(type, value))>>
    ELSE IF type \notin {T_bool, T_cstr} /\ endsWithBrackets(type) THEN <<Len(value)>>
    ELSE <<>>

takes_length(type) ==
    type \in {T_str, T_bytes} \/ (type \notin {T_bool, T_cstr} /\ endsWithBrackets(type))

\* arbitrary buffers and what unpack is asked to read from them
Buffers ==
    SeqsUpTo({0, 1, 129, 255}, MaxBuf)
        \cup {<<1, 2, 3, 4, 5, 6, 7, 8, 9>>, <<255, 254, 253, 252, 0, 129, 128, 127>>}
UnpackTypes ==
    {T_bool, T_cstr, T_str, T_bytes} \cup NumericKinds \cup {Arr(type) : type \in NumericKinds}
UnpackArgs(type) == IF takes_length(type) THEN {<<>>, <<0>>, <<1>>, <<2>>} ELSE {<<>>}

\* the <<type, value>> items handed to packSeq
SeqItems ==
    {<<T_u4b, Num(1223576)>>, <<T_str, <<104, 105>>>>, <<T_bool, FALSE>>, <<T_bool, TRUE>>,
     <<T_cstr, <<104>>>>, <<T_uv, Num(128)>>, <<Arr(T_u1), <<>>>>,
     <<Arr(T_iv), <<Num(-64), Num(5)>>>>, <<T_bytes, <<1, 0>>>>}

\* arbitrary buffers, and <<type, args>> descriptors, handed to unpackSeq
SeqBuffers == {<<>>, <<1, 129, 0, 104, 0>>, <<255, 1, 2, 3>>}
SeqDescriptors ==
    {<<T_bool, <<>>>>, <<T_cstr, <<>>>>, <<T_uv, <<>>>>, <<T_str, <<2>>>>,
     <<Arr(<<"u", "2", "b">>), <<>>>>}

\* the buffers and element widths handed to the two byte swaps: ramps of
\* distinct bytes, and the same with zeros in between
SwapBuffers ==
    {[i \in 1..n |-> i] : n \in 0..MaxSwapLen}
        \cup {[i \in 1..n |-> IF i % 3 = 0 THEN 0 ELSE 255 - i] : n \in 1..MaxSwapLen}
SwapWidths == {1, 2, 4, 8}

\* an optional argument: <<>> when undefined, <<n>> otherwise
Optional(S) == {<<>>} \cup {<<n>> : n \in S}

\* the buffers handed to writeTo, every byte 255, and the offsets within them
WriteBuffers == {[i \in 1..n |-> 255] : n \in {0, 2, 6, 13}}

\* the argument lists of concatBytes
ConcatInputs == SeqsUpTo({<<>>, <<1, 2>>, <<3>>, <<4, 5>>, <<255>>}, MaxItems)

---------------------------------------------------------------------------
(* the calls: each behaviour is one call, or one pack / packSeq followed by
   the decoding of what it wrote, on a host of either byte order *)

\* new FileParser(schema): a FileReader that has read nothing (readyState
\* EMPTY), no decoded file; file and onload are the number of the file being
\* read and of the parseFile call whose promise onload resolves (0: none)
FileParser(schema) ==
    [schema |-> schema, files |-> <<>>,
     file_reader |-> [readyState |-> "EMPTY", result |-> <<>>, file |-> 0, onload |-> 0],
     promises |-> <<>>, jobs |-> <<>>, loaded_data |-> <<>>]

\* parseFile(files[n]), the n-th call: readAsArrayBuffer throws an
\* InvalidStateError when the reader is LOADING, which rejects the promise
\* before onload is assigned; otherwise the read starts and onload is set to
\* resolve this call's promise
parseFile(p, n) ==
    IF p.file_reader.readyState = "LOADING"
    THEN [p EXCEPT !.promises = Append(@, "rejected")]
    ELSE [p EXCEPT !.promises = Append(@, "pending"),
                   !.file_reader = [readyState |-> "LOADING", result |-> <<>>,
                                    file |-> n, onload |-> n]]

\* the for loop of loader_input.onchange, from file i on
RECURSIVE onchange_loop(_, _)
onchange_loop(p, i) ==
    IF i > Len(p.files) THEN p ELSE onchange_loop(parseFile(p, i), i + 1)

\* parseBuffer(buf): the value of schema.decode(bin, 0), or what it throws
parseBuffer(p, b) ==
    LET r == unpack(p.schema, b, 0, <<>>)
    IN  IF r = RangeError THEN RangeError ELSE r[1]

\* the caller holds no pair of arrays
NoHold == [alias |-> "none", arg |-> <<>>, out |-> <<>>, numbers |-> {}, written |-> <<>>]

\* the caller holds the array it passed (arg) and the array it got back (out);
\* alias is "same" when the two are one object and "fresh" when the call
\* allocated what it returned; numbers names the sides that are an array of
\* numbers, the other sides being byte arrays
Hold(alias, arg, out, numbers) ==
    [alias |-> alias, arg |-> arg, out |-> out, numbers |-> numbers, written |-> <<>>]

Init ==
    /\ env_le \in BOOLEAN
    /\ pc = "start"
    /\ call = None
    /\ buf = <<>>
    /\ ret = None
    /\ seq = None
    /\ held = NoHold
    /\ parser = FileParser(T_u1)

\* swapEndianess ends with `return buf`: what it returns is its argument
swapEndianess_storage == "same"

\* a slip: the swap done on the argument's own storage
swapEndianessFast_storage_in_place == "same"

\* swapEndianessFast fills and returns `new Uint8Array(len)`
swapEndianessFast_storage == "fresh"

\* is a value of this type an array, which the caller can write to later
is_array(type) == type = T_bytes \/ (type \notin {T_bool, T_cstr, T_str} /\ endsWithBrackets(type))

\* a slip: the Uint8Array of 'u1[]' taken to be the caller's own
pack_storage_u1_passthrough(type) == IF type \in {T_bytes, Arr(T_u1)} THEN "same" ELSE "fresh"

\* what pack returns: encode_bytes returns its argument; every other encoder
\* returns an array it made (Uint8Array.of, TextEncoder.encode, Uint8Array.from,
\* typed_arr_constructor.from, swapEndianessFast)
pack_storage(type) == IF type = T_bytes THEN "same" ELSE "fresh"

\* what unpack returns: decode_bytes returns buf.slice(...), decode_number_array
\* returns Array.from of a typed array over buf.slice(...)
unpack_storage(type) == "fresh"

\* pack(type, value)
Pack(type, value) ==
    /\ pc = "start"
    /\ pc' = "pack"
    /\ call' = [type |-> type, value |-> value, offset |-> 0, args |-> <<>>]
    /\ buf' = pack(type, value)
    /\ ret' = None
    /\ seq' = None
    /\ held' = IF is_array(type)
               THEN Hold(pack_storage(type), value, buf', IF type = T_bytes THEN {} ELSE {"arg"})
               ELSE NoHold
    /\ UNCHANGED <<env_le, parser>>

\* unpack(type, pack(type, value), 0, ...args) with the matching trailing
\* argument or with none
Unpack(args) ==
    /\ pc = "pack"
    /\ pc' = "unpack"
    /\ call' = [call EXCEPT !.args = args]
    /\ ret' = unpack(call.type, buf, 0, args)
    /\ held' = NoHold
    /\ UNCHANGED <<env_le, parser, buf, seq>>

\* unpack(type, b, offset, ...args) on an arbitrary buffer
UnpackAt(type, b, offset, args) ==
    /\ pc = "start"
    /\ pc' = "unpackAt"
    /\ call' = [type |-> type, value |-> None, offset |-> offset, args |-> args]
    /\ buf' = b
    /\ ret' = unpack(type, b, offset, args)
    /\ seq' = None
    /\ held' = IF is_array(type) /\ ret' # RangeError
               THEN Hold(unpack_storage(type), b, ret'[1], IF type = T_bytes THEN {} ELSE {"out"})
               ELSE NoHold
    /\ UNCHANGED <<env_le, parser>>

\* encode_uvar(value) / encode_ivar(value), the exported single-value encoders
EncodeVar(type, value) ==
    /\ pc = "start"
    /\ pc' = "encode_var"
    /\ call' = [type |-> type, value |-> value, offset |-> 0, args |-> <<>>]
    /\ buf' = IF type = T_uv THEN encode_uvar(value) ELSE encode_ivar(value)
    /\ ret' = None
    /\ seq' = None
    /\ UNCHANGED <<env_le, parser, held>>

\* packSeq(...items)
PackSeq(items) ==
    /\ pc = "start"
    /\ pc' = "packSeq"
    /\ call' = [items |-> items]
    /\ buf' = packSeq(items)
    /\ ret' = None
    /\ seq' = None
    /\ UNCHANGED <<env_le, parser, held>>

\* the locals of unpackSeq(buf, offset, ...items) as its loop starts; calls is
\* the history of the unpack calls made: <<type, position, bytesize>>
unpackSeq_enter(offset, items) ==
    [offset |-> offset, items |-> items, values |-> <<>>, total_bytesize |-> 0,
     calls |-> <<>>]

\* unpackSeq(packSeq(...items), 0, ...) with the descriptors of the items, each
\* given its item's byte length or element count
UnpackSeq ==
    /\ pc = "packSeq"
    /\ pc' = "unpackSeq"
    /\ seq' = unpackSeq_enter(0, [k \in 1..Len(call.items) |->
                  <<call.items[k][1], MatchingArgs(call.items[k][1], call.items[k][2])>>])
    /\ UNCHANGED <<env_le, parser, call, buf, ret, held>>

\* unpackSeq(b, offset, ...items) on an arbitrary buffer
UnpackSeqAt(b, offset, items) ==
    /\ pc = "start"
    /\ pc' = "unpackSeq"
    /\ call' = None
    /\ buf' = b
    /\ seq' = unpackSeq_enter(offset, items)
    /\ UNCHANGED <<env_le, parser, ret, held>>

\* a slip of the cursor: every item decoded at the start offset
unpackSeq_cursor_unmoved(offset, total_bytesize) == offset

\* the position unpackSeq hands to unpack: offset + total_bytesize
unpackSeq_cursor(offset, total_bytesize) == offset + total_bytesize

\* one iteration of the for loop of unpackSeq; a throw of unpack ends the call
UnpackSeqStep ==
    /\ pc = "unpackSeq"
    /\ Len(seq.values) < Len(seq.items)
    /\ LET item == seq.items[Len(seq.values) + 1]
           at == unpackSeq_cursor(seq.offset, seq.total_bytesize)
           r == unpack(item[1], buf, at, item[2])
       IN  IF r = RangeError
           THEN /\ pc' = "thrown"
                /\ ret' = RangeError
                /\ seq' = seq
           ELSE /\ pc' = pc
                /\ ret' = ret
                /\ seq' = [seq EXCEPT !.values = Append(@, r[1]),
                                      !.total_bytesize = @ + r[2],
                                      !.calls = Append(@, <<item[1], at, r[2]>>)]
    /\ UNCHANGED <<env_le, parser, call, buf, held>>

\* return [values, total_bytesize]
UnpackSeqReturn ==
    /\ pc = "unpackSeq"
    /\ Len(seq.values) = Len(seq.items)
    /\ pc' = "unpackSeq_done"
    /\ ret' = <<seq.values, seq.total_bytesize>>
    /\ UNCHANGED <<env_le, parser, call, buf, seq, held>>

\* swapEndianess(b, bytesize): b is changed in place and returned
SwapEndianess(b, bytesize) ==
    /\ pc = "start"
    /\ pc' = "swapEndianess"
    /\ call' = [buf |-> b, bytesize |-> bytesize]
    /\ buf' = swapEndianess(b, bytesize)
    /\ ret' = buf'
    /\ seq' = None
    /\ held' = Hold(swapEndianess_storage, buf', ret', {})
    /\ UNCHANGED <<env_le, parser>>

\* swapEndianessFast(b, bytesize): b is left as it was, a new buffer is returned
SwapEndianessFast(b, bytesize) ==
    /\ pc = "start"
    /\ pc' = "swapEndianessFast"
    /\ call' = [buf |-> b, bytesize |-> bytesize]
    /\ buf' = b
    /\ ret' = swapEndianessFast(b, bytesize)
    /\ seq' = None
    /\ held' = Hold(swapEndianessFast_storage, buf', ret', {})
    /\ UNCHANGED <<env_le, parser>>

\* resolveRange(start, end, length, offset)
ResolveRange(start, end, length, offset) ==
    /\ pc = "start"
    /\ pc' = "resolveRange"
    /\ call' = [start |-> start, end |-> end, length |-> length, offset |-> offset]
    /\ ret' = resolveRange(start, end, length, offset)
    /\ seq' = None
    /\ UNCHANGED <<env_le, parser, buf, held>>

\* diff(arr, start, end); buf is arr as it reads after the call: diff works on
\* the copy arr.slice(...) and never writes to arr
Diff(arr, kind, start, end) ==
    /\ pc = "start"
    /\ pc' = "diff"
    /\ call' = [arr |-> arr, kind |-> kind, start |-> start, end |-> end]
    /\ buf' = arr
    /\ ret' = diff(arr, kind, start, end)
    /\ seq' = None
    /\ UNCHANGED <<env_le, parser, held>>

\* splitTypedSubarray(arr, step)
SplitTypedSubarray(arr, step) ==
    /\ pc = "start"
    /\ pc' = "splitTypedSubarray"
    /\ call' = [arr |-> arr, step |-> step]
    /\ buf' = arr
    /\ ret' = splitTypedSubarray(arr, step)
    /\ seq' = None
    /\ UNCHANGED <<env_le, parser, held>>

\* writeTo ends with `return [buf, offset + value_buf.length]`: the buffer it
\* returns is its argument
writeTo_storage == "same"

\* writeTo(b, offset, type, value); buf is b as it reads after the call
WriteToAt(b, offset, type, value) ==
    /\ pc = "start"
    /\ pc' = "writeTo"
    /\ call' = [type |-> type, value |-> value, offset |-> offset, before |-> b]
    /\ ret' = writeTo(b, offset, type, value)
    /\ buf' = IF ret' = RangeError THEN b ELSE ret'[1]
    /\ seq' = None
    /\ held' = IF ret' = RangeError THEN NoHold ELSE Hold(writeTo_storage, buf', ret'[1], {})
    /\ UNCHANGED <<env_le, parser>>

\* a caller about to write items into b from offset on and to read them back:
\* wrote and read are the offsets returned so far, values what was read
Thread(b, offset, items) ==
    /\ pc = "start"
    /\ pc' = "thread"
    /\ call' = [items |-> items, offset |-> offset, before |-> b]
    /\ buf' = b
    /\ ret' = None
    /\ seq' = [written |-> 0, wrote |-> offset, read |-> offset, values |-> <<>>]
    /\ UNCHANGED <<env_le, parser, held>>

\* [buf, offset] = writeTo(buf, offset, type, value) for the next item
ThreadWriteTo ==
    /\ pc = "thread"
    /\ seq.written < Len(call.items)
    /\ \E item \in {call.items[seq.written + 1]} :
       \E r \in {writeTo(buf, seq.wrote, item[1], item[2])} :
           IF r = RangeError
           THEN /\ pc' = "thread_thrown"
                /\ ret' = RangeError
                /\ buf' = buf
                /\ seq' = seq
           ELSE /\ pc' = pc
                /\ ret' = ret
                /\ buf' = r[1]
                /\ seq' = [seq EXCEPT !.written = @ + 1, !.wrote = r[2]]
    /\ UNCHANGED <<env_le, parser, call, held>>

\* [value, offset] = readFrom(buf, offset, type, length) for the next item,
\* once every item is written
ThreadReadFrom ==
    /\ pc = "thread"
    /\ seq.written = Len(call.items)
    /\ Len(seq.values) < Len(call.items)
    /\ \E item \in {call.items[Len(seq.values) + 1]} :
       \E r \in {readFrom(buf, seq.read, item[1], MatchingArgs(item[1], item[2]))} :
           IF r = RangeError
           THEN /\ pc' = "thread_thrown"
                /\ ret' = RangeError
                /\ seq' = seq
           ELSE /\ pc' = pc
                /\ ret' = ret
                /\ seq' = [seq EXCEPT !.values = Append(@, r[1]), !.read = r[2]]
    /\ UNCHANGED <<env_le, parser, call, buf, held>>

\* new FileParser(schema)
NewFileParser(schema) ==
    /\ pc = "start"
    /\ pc' = "FileParser"
    /\ parser' = FileParser(schema)
    /\ UNCHANGED <<env_le, call, buf, ret, seq, held>>

\* the change event of loader_input with files selected: the handler calls
\* parseFile for every file, one after the other, before anything is read
OnChange(files) ==
    /\ pc = "FileParser"
    /\ pc' = "onchange"
    /\ parser' = onchange_loop([parser EXCEPT !.files = files], 1)
    /\ UNCHANGED <<env_le, call, buf, ret, seq, held>>

\* the read in progress ends well: readyState DONE, result the file's bytes,
\* and the load event runs onload, which resolves its promise with
\* parseBuffer(result); the reaction of .then is queued
FileReaderLoad ==
    /\ pc = "onchange"
    /\ parser.file_reader.readyState = "LOADING"
    /\ \E value \in {parseBuffer(parser, parser.files[parser.file_reader.file])} :
       LET result == parser.files[parser.file_reader.file]
           n == parser.file_reader.onload
           settles == value # RangeError /\ parser.promises[n] = "pending"
       IN  parser' = [parser EXCEPT
               !.file_reader.readyState = "DONE",
               !.file_reader.result = result,
               !.promises[n] = IF settles THEN "fulfilled" ELSE @,
               !.jobs = IF settles THEN Append(@, value) ELSE @]
    /\ UNCHANGED <<env_le, pc, call, buf, ret, seq, held>>

\* the reaction of parseFile(...).then: data => this.loaded_data.push(data)
PromiseJob ==
    /\ pc = "onchange"
    /\ parser.jobs # <<>>
    /\ parser' = [parser EXCEPT !.loaded_data = Append(@, Head(parser.jobs)),
                                !.jobs = Tail(@)]
    /\ UNCHANGED <<env_le, pc, call, buf, ret, seq, held>>

\* a slip: a lone input handed back as it is
concatBytes_storage_single_returned(arrs) == IF Len(arrs) = 1 THEN "same" ELSE "fresh"

\* concatBytes returns outarr = new Uint8Array(total), filled by outarr.set
concatBytes_storage(arrs) == "fresh"

\* concatBytes(...arrs); the inputs are held side by side, in argument order
ConcatBytes(arrs) ==
    /\ pc = "start"
    /\ pc' = "concatBytes"
    /\ call' = [arrs |-> arrs]
    /\ buf' = <<>>
    /\ ret' = concatBytes(arrs)
    /\ seq' = None
    /\ held' = Hold(concatBytes_storage(arrs), Flatten(arrs), ret', {})
    /\ UNCHANGED <<env_le, parser>>

\* the caller's later `a[i] = 170` on the array it passed (side "arg") or on the
\* array it got back (side "out"); the two are one object when alias is
\* "same", and then the write is read through both
LaterWrite(side, i) ==
    /\ held.alias # "none"
    /\ held.written = <<>>
    /\ i \in 1..Len(IF side = "arg" THEN held.arg ELSE held.out)
    /\ LET x == IF side \in held.numbers THEN Num(170) ELSE 170 IN
       held' = [held EXCEPT
          !.arg = IF (side = "arg" \/ held.alias = "same") /\ i <= Len(@)
                  THEN [@ EXCEPT ![i] = x] ELSE @,
          !.out = IF (side = "out" \/ held.alias = "same") /\ i <= Len(@)
                  THEN [@ EXCEPT ![i] = x] ELSE @,
          !.written = <<side, i>>]
    /\ UNCHANGED <<env_le, parser, pc, call, buf, ret, seq>>

Next ==
    \/ pc = "start" /\ \E in \in PackInputs : Pack(in[1], in[2])
    \/ pc = "pack" /\ \E args \in {MatchingArgs(call.type, call.value), <<>>} : Unpack(args)
    \/ pc = "start" /\ \E type \in UnpackTypes, b \in Buffers :
          \E offset \in 0..Len(b), args \in UnpackArgs(type) : UnpackAt(type, b, offset, args)
    \/ pc = "start" /\ \E type \in VarKinds : \E value \in Values(type) : EncodeVar(type, value)
    \/ pc = "start" /\ \E items \in SeqsUpTo(SeqItems, MaxItems) : PackSeq(items)
    \/ UnpackSeq
    \/ pc = "start" /\ \E b \in SeqBuffers, items \in SeqsUpTo(SeqDescriptors, MaxItems) :
          \E offset \in 0..Min(1, Len(b)) : UnpackSeqAt(b, offset, items)
    \/ UnpackSeqStep
    \/ UnpackSeqReturn
    \/ pc = "start" /\ \E b \in SwapBuffers, bytesize \in SwapWidths : SwapEndianess(b, bytesize)
    \/ pc = "start" /\ \E b \in SwapBuffers, bytesize \in SwapWidths :
          SwapEndianessFast(b, bytesize)
    \/ pc = "start" /\ \E arrs \in ConcatInputs : ConcatBytes(arrs)
    \/ pc = "start" /\ \E schema \in {T_u1, T_uv} : NewFileParser(schema)
    \/ pc = "FileParser" /\ \E files \in SeqsUpTo({<<1>>, <<5>>, <<129, 0>>}, MaxFiles) \ {<<>>} :
          OnChange(files)
    \/ FileReaderLoad
    \/ PromiseJob
    \/ pc = "start" /\ \E b \in WriteBuffers, item \in SeqItems :
          \E offset \in 0..Len(b) : WriteToAt(b, offset, item[1], item[2])
    \/ pc = "start" /\ \E b \in WriteBuffers, items \in SeqsUpTo(SeqItems, MaxItems) :
          \E offset \in 0..Min(1, Len(b)) : Thread(b, offset, items)
    \/ ThreadWriteTo
    \/ ThreadReadFrom
    \/ pc = "start" /\ \E n \in 0..MaxSplitLen, step \in 1..(MaxSplitLen + 1) :
          SplitTypedSubarray([i \in 1..n |-> i], step)
    \/ pc = "start" /\ \E arr \in SeqsUpTo({Num(1), Num(2), Num(4), Num(-3)}, MaxDiffLen) :
          \E kind \in {"Array", "Int32Array"}, start \in Optional({0, 1}), end \in Optional({2, -1}) : Diff(arr, kind, start, end)
    \/ pc = "start" /\ \E start, end \in Optional(-(MaxRangeLen + 2)..(MaxRangeLen + 2)) :
          \E length \in Optional(0..MaxRangeLen), offset \in Optional({0, 3}) :
              ResolveRange(start, end, length, offset)
    \/ held.alias # "none" /\ \E side \in {"arg", "out"}, i \in 1..MaxSwapLen :
          LaterWrite(side, i)

Spec == Init /\ [][Next]_vars

---------------------------------------------------------------------------
(* what the claims speak of *)

\* the width a fixed-width kind declares: the digit of its type string
Width(type) == parseInt(CharAt(type, 1))

\* the kind of an array type
KindOf(type) == SubSeq(type, 1, Len(type) - 2)

\* the kinds NumericDType declares
DeclaredKinds == IntKinds \cup FloatKinds

\* the representable range of a fixed-width integer kind
RangeOf(type) ==
    LET t == CharAt(type, 0)
        s == CharAt(type, 1)
    IN  CASE t = "u" /\ s = "1" -> <<Num(0), Num(255)>>
          [] t = "i" /\ s = "1" -> <<Num(-128), Num(127)>>
          [] t = "u" /\ s = "2" -> <<Num(0), Num(65535)>>
          [] t = "i" /\ s = "2" -> <<Num(-32768), Num(32767)>>
          [] t = "u" /\ s = "4" -> <<Num(0), <<W16 - 1, W16 - 1>>>>
          [] t = "i" /\ s = "4" -> <<<<-W15, 0>>, <<W15 - 1, W16 - 1>>>>

InRange(type, v) == Leq(RangeOf(type)[1], v) /\ Leq(v, RangeOf(type)[2])

\* floor(v / 128) for v >= 0
Div128(v) == <<v[1] \div 128, ((v[1] % 128) * W16 + v[2]) \div 128>>

\* the minimal base-128 digit string of v >= 0, most significant digit first
RECURSIVE Base128(_)
Base128(v) ==
    IF ~GT(v, 127) THEN <<v[2]>>
    ELSE Append(Base128(Div128(v)), v[2] % 128)

\* ... with the high bit set on every byte except the last
Continued(digits) ==
    [i \in 1..Len(digits) |-> IF i < Len(digits) THEN digits[i] + 128 ELSE digits[i]]

---------------------------------------------------------------------------
(* the claims *)

\* C1: for every non-negative integer v of any magnitude, also v >= 2^31,
\* unpack("uv", pack("uv", v), 0) returns v and the number of bytes that
\* pack("uv", v) produced.
C1_UvarRoundTrip ==
    (pc = "unpack" /\ call.type = T_uv) => ret = <<call.value, Len(buf)>>

\* C2: for every integer v of any magnitude and either sign,
\* unpack("iv", pack("iv", v), 0) returns v and the number of bytes that
\* pack("iv", v) produced.
C2_IvarRoundTrip ==
    (pc = "unpack" /\ call.type = T_iv) => ret = <<call.value, Len(buf)>>

\* C3: for every list xs of non-negative integers ("uv[]") or of integers
\* ("iv[]"), the empty list included, decoding the back-to-back encoding of xs
\* from offset 0 returns xs and the encoded length, with the element count given
\* and with it omitted.
C3_VarArrayRoundTrip ==
    (pc = "unpack" /\ call.type \in {Arr(T_uv), Arr(T_iv)})
        => ret = <<call.value, Len(buf)>>

\* C4: for every declared fixed-width integer kind and every integer v in the
\* range of the kind, unpack(kind, pack(kind, v), 0) returns v and the width of
\* the kind, on a little-endian and on a big-endian host.
C4_FixedRoundTrip ==
    (pc = "unpack" /\ call.type \in IntKinds /\ InRange(call.type, call.value))
        => ret = <<call.value, Width(call.type)>>

C4_Witness ==
    /\ pc = "unpack"
    /\ ~env_le
    /\ call.type = <<"i", "4", "l">>
    /\ call.value = <<-W15, 0>>
    /\ buf = <<0, 0, 0, 128>>
    /\ ret = <<call.value, 4>>

\* C5: pack("uv", v) is the minimal big-endian base-128 digit string of v with
\* the high bit set on every byte except the last; so 0 -> [0x00],
\* 127 -> [0x7F], 128 -> [0x81,0x00], 16383 -> [0xFF,0x7F],
\* 16384 -> [0x81,0x80,0x00].
C5_UvarDigits ==
    (pc = "pack" /\ call.type = T_uv)
        => /\ buf = Continued(Base128(call.value))
           /\ call.value = Num(0) => buf = <<0>>
           /\ call.value = Num(127) => buf = <<127>>
           /\ call.value = Num(128) => buf = <<129, 0>>
           /\ call.value = Num(16383) => buf = <<255, 127>>
           /\ call.value = Num(16384) => buf = <<129, 128, 0>>

\* C6: pack("iv", v) gives 63 -> [0x3F], -63 -> [0x7F], 8191 -> [0xBF,0x7F],
\* -8191 -> [0xFF,0x7F], and a 0 is encoded as the one byte [0x00], never
\* [0x40], by encode_ivar and by encode_ivar_array alike.
C6_IvarTable ==
    /\ (pc \in {"pack", "encode_var"} /\ call.type = T_iv)
        => /\ call.value = Num(63) => buf = <<63>>
           /\ call.value = Num(-63) => buf = <<127>>
           /\ call.value = Num(8191) => buf = <<191, 127>>
           /\ call.value = Num(-8191) => buf = <<255, 127>>
           /\ call.value = Num(0) => buf = <<0>>
    /\ (pc = "pack" /\ call.type = Arr(T_iv)
            /\ \A i \in 1..Len(call.value) : call.value[i] = Num(0))
        => buf = [i \in 1..Len(call.value) |-> 0]

C6_Witness ==
    /\ pc = "encode_var"
    /\ call.type = T_iv
    /\ call.value = Num(0)
    /\ buf = <<0>>

\* C9: for every declared fixed-width kind of width w, every count n >= 0 and
\* every buffer with at least n * w bytes after the offset,
\* unpack(kind + "[]", buf, offset, n) returns n values and n * w bytes consumed.
C9_CountedArrayDecode ==
    (/\ pc = "unpackAt"
     /\ call.type \in {Arr(k) : k \in DeclaredKinds}
     /\ call.args # <<>>
     /\ Len(buf) - call.offset >= call.args[1] * Width(call.type))
        => /\ Len(ret) = 2
           /\ Len(ret[1]) = call.args[1]
           /\ ret[2] = call.args[1] * Width(call.type)

\* the width statement of C10 over a set of kinds
WidthsHold(kinds) ==
    /\ (pc = "pack" /\ call.type \in kinds) => Len(buf) = Width(call.type)
    /\ (pc = "pack" /\ call.type \in {Arr(k) : k \in kinds})
            => Len(buf) = Len(call.value) * Width(call.type)
    /\ (pc = "unpack" /\ call.type \in kinds)
            => (Len(ret) = 2 /\ ret[2] = Width(call.type))
    /\ (pc = "unpackAt" /\ call.type \in kinds
            /\ Len(buf) - call.offset >= Width(call.type))
            => (Len(ret) = 2 /\ ret[2] = Width(call.type))

RECURSIVE SumBytesize(_)
SumBytesize(calls) == IF calls = <<>> THEN 0 ELSE calls[1][3] + SumBytesize(Tail(calls))

\* C7: for every item list, unpackSeq(packSeq(items), 0, the descriptors of the
\* items, each given its item's byte length or element count) returns the
\* values of the items in their order and the length of the packSeq output.
C7_SeqRoundTrip ==
    (pc = "unpackSeq_done" /\ call # None)
        => ret = <<[k \in 1..Len(call.items) |-> call.items[k][2]], Len(buf)>>

\* C8: unpackSeq decodes item i with unpack at offset + (the bytes consumed by
\* the items before it), returns one value per descriptor in descriptor order,
\* and returns as total the sum of the bytes the items consumed.
C8_SeqCursor ==
    /\ pc \in {"unpackSeq", "unpackSeq_done", "thrown"}
        => /\ Len(seq.values) = Len(seq.calls)
           /\ \A i \in 1..Len(seq.calls) :
                /\ seq.calls[i][1] = seq.items[i][1]
                /\ seq.calls[i][2] = seq.offset + SumBytesize(SubSeq(seq.calls, 1, i - 1))
                /\ <<seq.values[i], seq.calls[i][3]>>
                      = unpack(seq.items[i][1], buf, seq.calls[i][2], seq.items[i][2])
    /\ pc = "unpackSeq_done"
        => /\ Len(ret[1]) = Len(seq.items)
           /\ ret[1] = seq.values
           /\ ret[2] = SumBytesize(seq.calls)

C8_Witness ==
    /\ pc = "unpackSeq_done"
    /\ Len(seq.calls) = 3
    /\ seq.offset = 1
    /\ seq.calls[2][3] > 0
    /\ seq.calls[3][2] > seq.calls[2][2]
    /\ ret[2] = seq.calls[1][3] + seq.calls[2][3] + seq.calls[3][3]

---------------------------------------------------------------------------
(* byte order on the wire *)

\* the w bytes of the two's complement of an integer v, most significant first
MsbFirst(w, v) ==
    LET hi == v[1] % W16
    IN  SubSeq(<<hi \div W8, hi % W8, v[2] \div W8, v[2] % W8>>, 5 - w, 4)

\* the bytes of v in the kind `type`, most significant byte first
WireBytesBE(type, v) ==
    IF CharAt(type, 0) = "f" THEN FloatBytesBE(typed_array_constructor_of(type), v)
    ELSE MsbFirst(Width(type), v)

---------------------------------------------------------------------------
(* strings and bytes *)

\* the index of the first x of b at or after from; Len(b) when there is none
RECURSIVE FirstAt(_, _, _)
FirstAt(b, x, from) ==
    IF from >= Len(b) THEN Len(b)
    ELSE IF b[from + 1] = x THEN from ELSE FirstAt(b, x, from + 1)

\* C12: pack("cstr", s) is the bytes of s followed by one 0x00 byte; for a
\* buffer whose first 0x00 at or after the offset is at index j,
\* unpack("cstr", buf, offset) returns the text of the bytes [offset, j) and
\* j - offset + 1 bytes consumed; "hi" packs to [104,105,0] and unpacks to
\* ("hi", 3).
C12_CString ==
    /\ (pc \in {"pack", "unpack"} /\ call.type = T_cstr)
            => /\ buf = utf8_encode(call.value) \o <<0>>
               /\ call.value = <<104, 105>> => buf = <<104, 105, 0>>
    /\ (pc = "unpack" /\ call.type = T_cstr /\ call.value = <<104, 105>>)
            => ret = <<<<104, 105>>, 3>>
    /\ (pc = "unpackAt" /\ call.type = T_cstr /\ FirstAt(buf, 0, call.offset) < Len(buf))
            => LET j == FirstAt(buf, 0, call.offset)
               IN  ret = <<utf8_decode(SubSeq(buf, call.offset + 1, j)), j - call.offset + 1>>

C12_Witness ==
    /\ pc = "unpackAt"
    /\ call.type = T_cstr
    /\ call.offset = 1
    /\ buf = <<0, 1, 0>>
    /\ ret = <<<<1>>, 2>>

\* C13: for "str" and "bytes" and every byte count k >= 0 with at least k bytes
\* after the offset, unpack returns the k bytes [offset, offset + k) and k bytes
\* consumed; with k omitted it returns the bytes from the offset to the end of
\* the buffer and buf.length - offset bytes consumed.
C13_LengthBounded ==
    (/\ pc = "unpackAt"
     /\ call.type \in {T_str, T_bytes}
     /\ call.args # <<>> => Len(buf) - call.offset >= call.args[1])
        => LET k == IF call.args = <<>> THEN Len(buf) - call.offset ELSE call.args[1]
               bytes == SubSeq(buf, call.offset + 1, call.offset + k)
           IN  ret = <<IF call.type = T_str THEN utf8_decode(bytes) ELSE bytes, k>>

C13_Witness ==
    /\ pc = "unpackAt"
    /\ call.type = T_str
    /\ call.args = <<0>>
    /\ call.offset = 1
    /\ Len(buf) = 3
    /\ ret = <<<<>>, 0>>

---------------------------------------------------------------------------
(* decoding arbitrary buffers *)

Consumed == SubSeq(buf, call.offset + 1, call.offset + ret[2])

\* is the varint in bs, of at most four bytes, the shortest one of its value:
\* its leading digit is not a padding zero
MinimalVar(type, bs) ==
    /\ Len(bs) <= 4
    /\ \/ Len(bs) = 1
       \/ IF type = T_uv THEN bs[1] % 128 # 0
          ELSE bs[1] % 64 # 0 \/ bs[2] % 128 >= 64

RECURSIVE AfterTerminals(_, _, _)
AfterTerminals(b, from, n) ==
    IF n = 0 THEN from
    ELSE IF from >= Len(b) THEN Len(b)
    ELSE AfterTerminals(b, from + 1, IF b[from + 1] < 128 THEN n - 1 ELSE n)

\* the number of terminal bytes of b at or after from
RECURSIVE Terminals(_, _)
Terminals(b, from) ==
    IF from >= Len(b) THEN 0
    ELSE (IF b[from + 1] < 128 THEN 1 ELSE 0) + Terminals(b, from + 1)

\* C15: for any buffer, any offset <= buf.length and any count n, decoding
\* "uv[]" / "iv[]" returns at most n values and consumes the bytes up to and
\* including the terminal byte of the n-th value and none after it, whatever
\* its continuation bit; with no count it consumes buf.length - offset bytes.
C15_VarArrayStops ==
    (pc = "unpackAt" /\ call.type \in {Arr(T_uv), Arr(T_iv)})
        => /\ Len(ret) = 2
           /\ call.args # <<>>
                => /\ Len(ret[1]) <= call.args[1]
                   /\ Len(ret[1]) = Min(call.args[1], Terminals(buf, call.offset))
                   /\ ret[2] = AfterTerminals(buf, call.offset, call.args[1]) - call.offset
           /\ call.args = <<>>
                => /\ ret[2] = Len(buf) - call.offset
                   /\ Len(ret[1]) = Terminals(buf, call.offset)

C15_Witness ==
    /\ pc = "unpackAt"
    /\ call.type = Arr(T_uv)
    /\ call.args = <<1>>
    /\ call.offset = 0
    /\ buf = <<1, 129, 0>>
    /\ ret = <<<<Num(1)>>, 1>>

\* C16: when no byte with continuation bit 0 lies between the offset and the
\* end of the buffer, decoding "uv" / "iv", single or array, reports a
\* MalformedVarint error and returns no [value, bytesize].
C16_MalformedVarint ==
    (/\ pc = "unpackAt"
     /\ call.type \in {T_uv, T_iv, Arr(T_uv), Arr(T_iv)}
     /\ call.args \in {<<>>, <<1>>, <<2>>}
     /\ call.offset < Len(buf)
     /\ Terminals(buf, call.offset) = 0)
        => ret = <<"MalformedVarint">>

\* the bytes a read requires: w for a fixed-width number, n * w for a
\* fixed-width array with count n, k for "str" / "bytes" with byte count k
Required(type, args) ==
    IF type \in {T_str, T_bytes} THEN args[1]
    ELSE IF endsWithBrackets(type) THEN args[1] * Width(type)
    ELSE Width(type)

\* C17: when fewer bytes remain after the offset than the read requires,
\* unpack reports an UnexpectedEnd error and returns no shortened or absent
\* value.
C17_UnexpectedEnd ==
    (/\ pc = "unpackAt"
     /\ call.type \in {T_str, T_bytes} \cup DeclaredKinds \cup {Arr(k) : k \in DeclaredKinds}
     /\ takes_length(call.type) => call.args # <<>>
     /\ Len(buf) - call.offset < Required(call.type, call.args))
        => ret = <<"UnexpectedEnd">>

\* C18: for a kind outside u1, u2, u4, i1, i2, i4, f4, f8, u1c ("u8l", "i8b")
\* pack and unpack do not fail and take every element as one unsigned 8-bit
\* cell: pack writes one byte per element, unpack consumes one byte per
\* element, and the anomaly goes to the diagnostic channel.
C18_UnknownKind ==
    /\ (pc = "pack" /\ call.type \in WideIntKinds)
            => /\ unrecognized_type(call.type)
               /\ buf = <<call.value[2] % W8>>
    /\ (pc = "pack" /\ call.type \in {Arr(k) : k \in WideIntKinds})
            => /\ unrecognized_type(call.type)
               /\ buf = [i \in 1..Len(call.value) |-> call.value[i][2] % W8]
    /\ (pc = "unpackAt" /\ call.type \in WideIntKinds /\ call.offset < Len(buf))
            => /\ unrecognized_type(call.type)
               /\ ret = <<Num(buf[call.offset + 1]), 1>>
    /\ (pc = "unpackAt" /\ call.type \in {Arr(k) : k \in WideIntKinds}
            /\ call.args # <<>> /\ Len(buf) - call.offset >= call.args[1])
            => /\ unrecognized_type(call.type)
               /\ ret = <<[i \in 1..call.args[1] |-> Num(buf[call.offset + i])], call.args[1]>>

---------------------------------------------------------------------------
(* the two byte swaps *)

\* every element of w bytes reversed: byte j of element k is byte w - 1 - j of
\* element k of b, for a b of whole elements
ElementsReversed(b, w) ==
    [n \in 1..Len(b) |-> b[((n - 1) \div w) * w + (w - 1 - ((n - 1) % w)) + 1]]

\* C19: for widths 2, 4 and 8 and every buffer whose length is a multiple of
\* the width, swapEndianess and swapEndianessFast return the same bytes: byte j
\* of element k of the output is byte width - 1 - j of element k of the input.
C19_SwapsAgree ==
    (/\ pc \in {"swapEndianess", "swapEndianessFast"}
     /\ call.bytesize \in {2, 4, 8}
     /\ Len(call.buf) % call.bytesize = 0)
        => /\ ret = ElementsReversed(call.buf, call.bytesize)
           /\ swapEndianess(call.buf, call.bytesize)
                = swapEndianessFast(call.buf, call.bytesize)

C19_Witness ==
    /\ pc = "swapEndianessFast"
    /\ call.bytesize = 4
    /\ call.buf = <<1, 2, 3, 4, 5, 6, 7, 8>>
    /\ ret = <<4, 3, 2, 1, 8, 7, 6, 5>>
    /\ swapEndianess(call.buf, 4) = ret

\* C20: for a buffer whose length is not a multiple of the width, neither swap
\* fails, both return a buffer of the input's length, and the two return the
\* same bytes, those of the trailing partial element included.
C20_SwapsAgreeOnPartial ==
    (/\ pc \in {"swapEndianess", "swapEndianessFast"}
     /\ Len(call.buf) % call.bytesize # 0)
        => /\ Len(ret) = Len(call.buf)
           /\ swapEndianess(call.buf, call.bytesize)
                = swapEndianessFast(call.buf, call.bytesize)

\* C21: swapEndianess hands back the very buffer it was given, with every
\* element's bytes reversed in it, so a later write through either name is read
\* through the other; swapEndianessFast leaves every byte of its argument as it
\* was and hands back a newly allocated buffer of the same length, so a later
\* write to one of the two is not read through the other.
C21_SwapMutation ==
    /\ pc = "swapEndianess"
          => /\ held.alias = "same"
             /\ ret = buf
             /\ buf = swapEndianess(call.buf, call.bytesize)
             /\ held.arg = held.out
    /\ pc = "swapEndianessFast"
          => /\ held.alias = "fresh"
             /\ buf = call.buf
             /\ Len(ret) = Len(call.buf)
             /\ held.written # <<>> /\ held.written[1] = "out" => held.arg = call.buf
             /\ held.written # <<>> /\ held.written[1] = "arg" => held.out = ret

C21_Witness ==
    /\ pc = "swapEndianessFast"
    /\ call.bytesize = 2
    /\ call.buf = <<1, 2, 3, 4>>
    /\ ret = <<2, 1, 4, 3>>
    /\ held.written = <<"out", 1>>
    /\ held.out = <<170, 1, 4, 3>>
    /\ held.arg = <<1, 2, 3, 4>>

\* C22: concatBytes returns a newly allocated buffer whose length is the sum of
\* the lengths of its inputs and whose bytes are those of the inputs in argument
\* order; with no argument the buffer is empty; no input is changed by the call,
\* and a later write to the result or to an input is not read through the
\* other, a call with a single input included.
C22_ConcatBytes ==
    pc = "concatBytes"
        => /\ Len(ret) = Len(Flatten(call.arrs))
           /\ ret = Flatten(call.arrs)
           /\ call.arrs = <<>> => ret = <<>>
           /\ held.alias = "fresh"
           /\ held.written = <<>> => held.arg = Flatten(call.arrs)
           /\ held.written # <<>> /\ held.written[1] = "out" => held.arg = Flatten(call.arrs)
           /\ held.written # <<>> /\ held.written[1] = "arg" => held.out = ret

C22_Witness ==
    /\ pc = "concatBytes"
    /\ call.arrs = << <<1, 2>>, <<3>>, <<4, 5>> >>
    /\ ret = <<1, 2, 3, 4, 5>>
    /\ held.written = <<"arg", 3>>
    /\ held.arg = <<1, 2, 170, 4, 5>>
    /\ held.out = ret

\* the value of an optional argument, d when it is undefined
OrElse(x, d) == IF x = <<>> THEN d ELSE x[1]

\* C23: whenever length is given (and offset is absent or not negative),
\* resolveRange returns bounds with 0 <= start <= end, for every start and end,
\* absent, positive or negative: an index below -length resolves to 0 and an
\* end below start does not give end < start.
C23_RangeOrdered ==
    (pc = "resolveRange" /\ call.length # <<>>)
        => /\ 0 <= ret[1]
           /\ ret[1] <= ret[2][1]
           /\ (call.start # <<>> /\ call.start[1] < -call.length[1])
                 => ret[1] = OrElse(call.offset, 0)

\* C24: start defaults to 0 and end to length; a negative start or end is
\* replaced by length + value; the span is end - start, 0 when that is
\* negative, and does not depend on offset; offset is added to start and to
\* end after everything else; with length absent the result is
\* (start + offset, end + offset or absent, absent).
C24_RangeComputed ==
    pc = "resolveRange"
        => LET s == OrElse(call.start, 0)
               o == OrElse(call.offset, 0)
           IN  IF call.length = <<>>
               THEN ret = <<s + o, IF call.end = <<>> THEN <<>> ELSE <<call.end[1] + o>>, <<>> >>
               ELSE LET n == call.length[1]
                        e == OrElse(call.end, n)
                        from == IF s < 0 THEN n + s ELSE s
                        to == IF e < 0 THEN n + e ELSE e
                    IN  /\ ret[1] = from + o
                        /\ ret[2] = <<to + o>>
                        /\ ret[3] = <<Max(to - from, 0)>>
                        /\ ret[3] = resolveRange(call.start, call.end, call.length, <<>>)[3]

C24_Witness ==
    /\ pc = "resolveRange"
    /\ call.start = <<-2>> /\ call.end = <<>> /\ call.length = <<10>> /\ call.offset = <<3>>
    /\ ret = <<11, <<13>>, <<2>> >>
    /\ resolveRange(<<-2>>, <<>>, <<10>>, <<>>) = <<8, <<10>>, <<2>> >>
    /\ resolveRange(<<>>, <<>>, <<5>>, <<>>) = <<0, <<5>>, <<5>> >>
    /\ resolveRange(<<3>>, <<1>>, <<10>>, <<>>)[3] = <<0>>

\* C25: unpack, for every descriptor, leaves every byte of the buffer it reads
\* as it was and returns a value that shares no storage with it; pack, for
\* every descriptor ('bytes' and 'u1[]' included), returns a buffer that shares
\* no storage with the caller's value; so a later write to either side is not
\* read through the other.
C25_NoAliasing ==
    /\ (pc = "pack" /\ held.alias # "none")
          => /\ held.alias = "fresh"
             /\ held.written # <<>> /\ held.written[1] = "out" => held.arg = call.value
             /\ held.written # <<>> /\ held.written[1] = "arg" => held.out = buf
    /\ (pc = "unpackAt" /\ held.alias # "none")
          => /\ held.alias = "fresh"
             /\ held.written # <<>> /\ held.written[1] = "out" => held.arg = buf
             /\ held.written # <<>> /\ held.written[1] = "arg" => held.out = ret[1]

\* C25, amended: as C25 for unpack and for pack of every descriptor but
\* 'bytes'; pack('bytes', value) returns value itself, so a later write to
\* either of the two is read through the other.
C25_NoAliasingButBytes ==
    /\ (pc = "pack" /\ held.alias # "none" /\ call.type # T_bytes)
          => /\ held.alias = "fresh"
             /\ held.written # <<>> /\ held.written[1] = "out" => held.arg = call.value
             /\ held.written # <<>> /\ held.written[1] = "arg" => held.out = buf
    /\ (pc = "pack" /\ call.type = T_bytes)
          => /\ held.alias = "same"
             /\ buf = call.value
             /\ held.arg = held.out
    /\ (pc = "unpackAt" /\ held.alias # "none")
          => /\ held.alias = "fresh"
             /\ held.written # <<>> /\ held.written[1] = "out" => held.arg = buf
             /\ held.written # <<>> /\ held.written[1] = "arg" => held.out = ret[1]

C25_Witness ==
    /\ pc = "pack"
    /\ call.type = T_bytes
    /\ call.value = <<1, 255>>
    /\ held.written = <<"out", 1>>
    /\ held.arg = <<170, 255>>

\* C26: for every array of n >= 1 elements and the default range, diff returns
\* the n - 1 differences of successive elements, diff(arr)[i] = arr[i + 1] -
\* arr[i] (none for a single element), and leaves arr as it was.
C26_Diff ==
    (pc = "diff" /\ Len(call.arr) >= 1 /\ call.start = <<>> /\ call.end = <<>>)
        => /\ Len(ret) = Len(call.arr) - 1
           /\ \A i \in 0..(Len(call.arr) - 2) :
                  ret[i + 1] = Minus(call.arr[i + 2], call.arr[i + 1])
           /\ buf = call.arr

\* the elements a view covers
ViewOf(arr, view) == SubSeq(arr, view.from + 1, view.to)

\* C27: splitTypedSubarray(arr, step) returns ceil(arr.length / step) views,
\* view i covering exactly the elements [i * step, min((i + 1) * step,
\* arr.length)): the views are disjoint, each has step elements but possibly
\* the last, and put end to end they are arr.
C27_SplitViews ==
    pc = "splitTypedSubarray"
        => /\ Len(ret) = Ceil(Len(call.arr), call.step)
           /\ \A n \in 1..Len(ret) :
                  /\ ret[n].from = (n - 1) * call.step
                  /\ ret[n].to = Min(n * call.step, Len(call.arr))
           /\ Flatten([n \in 1..Len(ret) |-> ViewOf(call.arr, ret[n])]) = call.arr

\* C28: for every buffer, every offset within it and every descriptor list,
\* the total_bytesize unpackSeq returns is at most buf.length - offset, and the
\* new offset readFrom returns is at most buf.length, a bool or a cstr read at
\* the end of the buffer included.
C28_CursorInside ==
    /\ pc = "unpackSeq_done" => ret[2] <= Len(buf) - seq.offset
    /\ (pc = "unpackAt" /\ ret # RangeError)
          => readFrom(buf, call.offset, call.type, call.args)[2] <= Len(buf)

\* C29: writeTo(buf, o, type, value) changes only the bytes [o, o + n) of buf, n
\* the length of pack(type, value), and returns that same buf and o + n; a run
\* of writeTo calls that fit, each from the offset the one before returned,
\* then the same run of readFrom calls (same types, the lengths they need),
\* gives back the written values in order and the same final offset.
C29_WriteReadAgree ==
    /\ (pc = "writeTo" /\ ret # RangeError)
          => LET value_buf == pack(call.type, call.value)
                 o == call.offset
             IN  /\ Len(buf) = Len(call.before)
                 /\ \A n \in 1..Len(buf) :
                        buf[n] = IF o < n /\ n <= o + Len(value_buf)
                                 THEN value_buf[n - o] ELSE call.before[n]
                 /\ ret = <<buf, o + Len(value_buf)>>
                 /\ held.alias = "same"
                 /\ held.arg = held.out
    /\ (pc = "thread" /\ Len(seq.values) = Len(call.items))
          => /\ seq.values = [k \in 1..Len(call.items) |-> call.items[k][2]]
             /\ seq.read = seq.wrote

\* nothing of a change event is left to happen: no read in progress and no
\* promise reaction waiting
Settled ==
    /\ pc = "onchange"
    /\ parser.file_reader.readyState # "LOADING"
    /\ parser.jobs = <<>>

\* C30: when one change event carries k >= 1 files and every read succeeds,
\* each file is decoded with the schema and its value is appended to
\* loaded_data exactly once: once nothing is left to happen, loaded_data holds
\* k entries, one for each file, the decoding of that file's bytes.
C30_AllFilesLoaded ==
    Settled
        => /\ Len(parser.loaded_data) = Len(parser.files)
           /\ \E order \in [1..Len(parser.files) -> 1..Len(parser.files)] :
                  /\ \A i, j \in 1..Len(parser.files) : order[i] = order[j] => i = j
                  /\ \A i \in 1..Len(parser.files) :
                         parser.loaded_data[i] = parseBuffer(parser, parser.files[order[i]])

====
